---- MODULE Spec2Model ----
(***************************************************************************)
(* Model of generate.py, the h2c torture-test manifest generator.          *)
(*                                                                         *)
(* A text is modelled as the sequence of its lines; every line of the      *)
(* sequence is terminated by "\n" in the Python string.  All documents     *)
(* built by generate_release end with "\n", so the representation is exact *)
(* for them.  Number formatting ({r:03d}, {idx:04d}, {release_idx}) is     *)
(* computed digit by digit through ToString with explicit zero padding.    *)
(*                                                                         *)
(* The filesystem (dirs, files) outlives a process; everything else is     *)
(* the state of the running process and is reset by Invoke.                *)
(***************************************************************************)
EXTENDS Integers, Naturals, Sequences, FiniteSets, TLC

VARIABLES
    pc,           \* position of the process in main(): idle/check/mkout/report/loop/gen/write/exited
    n,            \* args.n
    args_output,  \* args.output ("" stands for the falsy values None and "")
    output,       \* local `output` of main
    cm_names,     \* local `cm_names` of main
    fqdns,        \* local `fqdns` of main
    release_idx,  \* loop variable of main
    content,      \* local `content` of main
    stdout,       \* lines printed on sys.stdout by the current process
    stderr,       \* lines printed on sys.stderr by the current process
    exit_status,  \* exit status of the process, meaningful when pc = "exited"
    dirs,         \* filesystem: set of existing directory paths
    files,        \* filesystem: function from existing file paths to their text
    runs,         \* number of processes started so far
    dirs0,        \* history: dirs when the current process started
    files0,       \* history: files when the current process started
    log           \* history: what each successful run left in its release files

vars == <<pc, n, args_output, output, cm_names, fqdns, release_idx, content,
          stdout, stderr, exit_status, dirs, files, runs, dirs0, files0, log>>

proc == <<n, args_output, output, cm_names, fqdns, release_idx, content>>

-----------------------------------------------------------------------------
(* Bounds *)

MaxN == 2
MaxRuns == 2

\* values of the positional argument n that are tried
Ns == (-1)..MaxN

\* values of --output that are tried
CustomOutput == "/tmp/foo"
Outputs == {"", CustomOutput}

-----------------------------------------------------------------------------
(* Formatting *)

\* format spec 03d: decimal, zero padded to width 3 (never truncated)
Fmt03d(k) ==
    IF k < 10 THEN "00" \o ToString(k)
    ELSE IF k < 100 THEN "0" \o ToString(k)
    ELSE ToString(k)

\* format spec 04d: decimal, zero padded to width 4 (never truncated)
Fmt04d(k) ==
    IF k < 10 THEN "000" \o ToString(k)
    ELSE IF k < 100 THEN "00" \o ToString(k)
    ELSE IF k < 1000 THEN "0" \o ToString(k)
    ELSE ToString(k)

RECURSIVE Flatten(_)
\* concatenation of a sequence of sequences
Flatten(ss) == IF ss = <<>> THEN <<>> ELSE Head(ss) \o Flatten(Tail(ss))

\* "\n".join(items) followed by the "\n" of the enclosing f-string:
\* the lines of the items, or one empty line when there is no item
JoinNL(items) == IF items = <<>> THEN <<"">> ELSE Flatten(items)

RECURSIVE JoinDocs_Trailing(_)
\* fault variant: the separator is written after every document, the last included
JoinDocs_Trailing(docs) ==
    IF docs = <<>> THEN <<>>
    ELSE docs[1] \o <<"---">> \o JoinDocs_Trailing(Tail(docs))

\* "---\n".join(docs), every doc ending with "\n"
RECURSIVE JoinDocs(_)
JoinDocs(docs) ==
    IF docs = <<>> THEN <<>>
    ELSE IF Len(docs) = 1 THEN docs[1]
    ELSE docs[1] \o <<"---">> \o JoinDocs(Tail(docs))

\* os.path.join(a, b) for a relative b and an a without trailing slash
PathJoin(a, b) == a \o "/" \o b

-----------------------------------------------------------------------------
(* Name derivation *)

ConfigMapName(r, i) == "r" \o Fmt03d(r) \o "-config-" \o Fmt03d(i)

ServiceFqdn(r, i) ==
    "r" \o Fmt03d(r) \o "-app-" \o Fmt03d(i) \o ".default.svc.cluster.local"

\* fault variant: the two loops are nested the other way round
all_configmap_names_Swapped(k) ==
    IF k < 1 THEN <<>>
    ELSE [p \in 1..(k * k) |-> ConfigMapName((p - 1) % k, (p - 1) \div k)]

\* [name(r, i) for r in range(k) for i in range(k)]
all_configmap_names(k) ==
    IF k < 1 THEN <<>>
    ELSE [p \in 1..(k * k) |-> ConfigMapName((p - 1) \div k, (p - 1) % k)]

\* [fqdn(r, i) for r in range(k) for i in range(k)]
all_service_fqdns(k) ==
    IF k < 1 THEN <<>>
    ELSE [p \in 1..(k * k) |-> ServiceFqdn((p - 1) \div k, (p - 1) % k)]

-----------------------------------------------------------------------------
(* Release document assembly *)

Prefix(r) == "r" \o Fmt03d(r)

ConfigMapDoc(r, i) ==
    << "apiVersion: v1",
       "kind: ConfigMap",
       "metadata:",
       "  name: " \o Prefix(r) \o "-config-" \o Fmt03d(i),
       "  namespace: default",
       "data:",
       "  SETTING_A: \"value-a-" \o ToString(r) \o "-" \o ToString(i) \o "\"",
       "  SETTING_B: \"value-b-" \o ToString(r) \o "-" \o ToString(i) \o "\"",
       "  config.yaml: |",
       "    key: release-" \o ToString(r) \o "-cm-" \o ToString(i) >>

SecretDoc(r, i) ==
    << "apiVersion: v1",
       "kind: Secret",
       "metadata:",
       "  name: " \o Prefix(r) \o "-secret-" \o Fmt03d(i),
       "  namespace: default",
       "type: Opaque",
       "data:",
       "  password: cGFzc3dvcmQ=",
       "  token: dG9rZW4xMjM=" >>

\* fault variant: the last configmap is not mounted
volume_mounts_OffByOne(names) ==
    JoinNL([p \in 1..(Len(names) - 1) |->
        << "            - name: cm-" \o Fmt04d(p - 1),
           "              mountPath: /etc/config/" \o Fmt04d(p - 1),
           "              readOnly: true" >>])

\* one item per idx in range(len(names))
volume_mounts(names) ==
    JoinNL([p \in 1..Len(names) |->
        << "            - name: cm-" \o Fmt04d(p - 1),
           "              mountPath: /etc/config/" \o Fmt04d(p - 1),
           "              readOnly: true" >>])

\* fault variant: enumerate starts at 1
volumes_FromOne(names) ==
    JoinNL([p \in 1..Len(names) |->
        << "        - name: cm-" \o Fmt04d(p),
           "          configMap:",
           "            name: " \o names[p] >>])

\* one item per (idx, name) in enumerate(names)
volumes(names) ==
    JoinNL([p \in 1..Len(names) |->
        << "        - name: cm-" \o Fmt04d(p - 1),
           "          configMap:",
           "            name: " \o names[p] >>])

\* one item per (idx, fqdn) in enumerate(hosts)
env_vars(hosts) ==
    JoinNL([p \in 1..Len(hosts) |->
        << "            - name: SVC_" \o Fmt04d(p - 1),
           "              value: \"http://" \o hosts[p] \o ":8080/api\"" >>])

\* fault variant: one reference per secret of the whole corpus
env_from_All(r, k) ==
    JoinNL([p \in 1..(IF k < 0 THEN 0 ELSE k * k) |->
        << "            - secretRef:",
           "                name: " \o Prefix((p - 1) \div k) \o "-secret-" \o Fmt03d((p - 1) % k) >>])

\* one item per j in range(k)
env_from(r, k) ==
    JoinNL([p \in 1..(IF k < 0 THEN 0 ELSE k) |->
        << "            - secretRef:",
           "                name: " \o Prefix(r) \o "-secret-" \o Fmt03d(p - 1) >>])

DeploymentDoc(r, i, k, names, hosts) ==
    << "apiVersion: apps/v1",
       "kind: Deployment",
       "metadata:",
       "  name: " \o Prefix(r) \o "-app-" \o Fmt03d(i),
       "  namespace: default",
       "  labels:",
       "    app: " \o Prefix(r) \o "-app-" \o Fmt03d(i),
       "spec:",
       "  replicas: 1",
       "  selector:",
       "    matchLabels:",
       "      app: " \o Prefix(r) \o "-app-" \o Fmt03d(i),
       "  template:",
       "    metadata:",
       "      labels:",
       "        app: " \o Prefix(r) \o "-app-" \o Fmt03d(i),
       "    spec:",
       "      initContainers:",
       "        - name: init",
       "          image: busybox:1.36",
       "          command: ['sh', '-c', 'echo init-" \o Prefix(r) \o "-" \o ToString(i) \o "']",
       "      containers:",
       "        - name: main",
       "          image: nginx:1.27-alpine",
       "          ports:",
       "            - containerPort: 8080",
       "          env:" >>
    \o env_vars(hosts)
    \o << "          envFrom:" >>
    \o env_from(r, k)
    \o << "          volumeMounts:" >>
    \o volume_mounts(names)
    \o << "        - name: sidecar",
          "          image: busybox:1.36",
          "          command: ['sh', '-c', 'sleep infinity']",
          "      volumes:" >>
    \o volumes(names)

\* fault variant: the Service is named after the release only
ServiceDoc_Renamed(r, i) ==
    << "apiVersion: v1",
       "kind: Service",
       "metadata:",
       "  name: " \o Prefix(r) \o "-svc-" \o Fmt03d(i),
       "  namespace: default",
       "spec:",
       "  type: ClusterIP",
       "  ports:",
       "    - port: 8080",
       "      targetPort: 8080",
       "  selector:",
       "    app: " \o Prefix(r) \o "-app-" \o Fmt03d(i) >>

ServiceDoc(r, i) ==
    << "apiVersion: v1",
       "kind: Service",
       "metadata:",
       "  name: " \o Prefix(r) \o "-app-" \o Fmt03d(i),
       "  namespace: default",
       "spec:",
       "  type: ClusterIP",
       "  ports:",
       "    - port: 8080",
       "      targetPort: 8080",
       "  selector:",
       "    app: " \o Prefix(r) \o "-app-" \o Fmt03d(i) >>

\* one item per i in range(k)
paths(r, k) ==
    JoinNL([p \in 1..(IF k < 0 THEN 0 ELSE k) |->
        << "          - path: /svc-" \o Fmt03d(p - 1),
           "            pathType: Prefix",
           "            backend:",
           "              service:",
           "                name: " \o Prefix(r) \o "-app-" \o Fmt03d(p - 1),
           "                port:",
           "                  number: 8080" >>])

IngressDoc(r, k) ==
    << "apiVersion: networking.k8s.io/v1",
       "kind: Ingress",
       "metadata:",
       "  name: " \o Prefix(r) \o "-ingress",
       "  namespace: default",
       "  annotations:",
       "    kubernetes.io/ingress.class: haproxy",
       "spec:",
       "  rules:",
       "    - host: " \o Prefix(r) \o ".example.com",
       "      http:",
       "        paths:" >>
    \o paths(r, k)

\* fault variant: the Ingress is appended inside the Service loop
ReleaseDocs_IngressPerService(r, k, names, hosts) ==
    LET cnt == IF k < 0 THEN 0 ELSE k IN
       [p \in 1..cnt |-> ConfigMapDoc(r, p - 1)]
    \o [p \in 1..cnt |-> SecretDoc(r, p - 1)]
    \o [p \in 1..cnt |-> DeploymentDoc(r, p - 1, k, names, hosts)]
    \o Flatten([p \in 1..cnt |-> << ServiceDoc(r, p - 1), IngressDoc(r, k) >>])

\* the list `docs` of generate_release just before the final join
ReleaseDocs(r, k, names, hosts) ==
    LET cnt == IF k < 0 THEN 0 ELSE k IN
       [p \in 1..cnt |-> ConfigMapDoc(r, p - 1)]
    \o [p \in 1..cnt |-> SecretDoc(r, p - 1)]
    \o [p \in 1..cnt |-> DeploymentDoc(r, p - 1, k, names, hosts)]
    \o [p \in 1..cnt |-> ServiceDoc(r, p - 1)]
    \o << IngressDoc(r, k) >>

generate_release(r, k, names, hosts) == JoinDocs(ReleaseDocs(r, k, names, hosts))

-----------------------------------------------------------------------------
(* Orchestration: main() *)

DefaultOutput(k) == "/tmp/h2c-torture-" \o ToString(k) \o "/manifests"

ReleaseDir(out, r) == PathJoin(out, "release-" \o Fmt03d(r))

ManifestPath(out, r) == PathJoin(ReleaseDir(out, r), "manifests.yaml")

ErrorLine == "Error: n must be >= 1"

\* first line of the report an uncaught exception leaves on stderr
Traceback == "Traceback (most recent call last):"

DoneLine(k, out) ==
    "Done. " \o ToString(k) \o " release directories written to " \o out

\* the source prints U+2074 (superscript four) where ^4 stands here
ReportLines(k, out) ==
    LET total_deploy == k * k
        total_cm == k * k
        total_mounts == total_deploy * total_cm
        total_env_rewrites == total_deploy * total_deploy
    IN << "Generating torture test: n=" \o ToString(k),
          "  " \o ToString(total_deploy) \o " deployments, " \o ToString(total_cm)
               \o " configmaps, " \o ToString(total_deploy) \o " services",
          "  " \o ToString(total_mounts) \o " configmap mount resolutions (n^4)",
          "  " \o ToString(total_env_rewrites) \o " env FQDN rewrites (n^4)",
          "  Output: " \o out >>

\* fault variant: the file is opened in append mode
WriteFile_Append(fs, path, text) ==
    [p \in DOMAIN fs \cup {path} |->
        IF p = path THEN (IF path \in DOMAIN fs THEN fs[path] \o text ELSE text)
        ELSE fs[p]]

\* open(path, "w") followed by a complete write and close
WriteFile(fs, path, text) ==
    [p \in DOMAIN fs \cup {path} |-> IF p = path THEN text ELSE fs[p]]

Init ==
    /\ pc = "idle"
    /\ n = 0
    /\ args_output = ""
    /\ output = ""
    /\ cm_names = <<>>
    /\ fqdns = <<>>
    /\ release_idx = 0
    /\ content = <<>>
    /\ stdout = <<>>
    /\ stderr = <<>>
    /\ exit_status = 0
    /\ dirs = {}
    /\ files = <<>>
    /\ runs = 0
    /\ dirs0 = {}
    /\ files0 = <<>>
    /\ log = {}

\* a new process is started: python3 generate.py k [--output o]
Invoke ==
    /\ pc \in {"idle", "exited"}
    /\ runs < MaxRuns
    /\ \E k \in Ns, o \in Outputs :
          /\ n' = k
          /\ args_output' = o
    /\ output' = ""
    /\ cm_names' = <<>>
    /\ fqdns' = <<>>
    /\ release_idx' = 0
    /\ content' = <<>>
    /\ stdout' = <<>>
    /\ stderr' = <<>>
    /\ exit_status' = 0
    /\ runs' = runs + 1
    /\ dirs0' = dirs
    /\ files0' = files
    /\ pc' = "check"
    /\ UNCHANGED <<dirs, files, log>>

\* fault variant: the exception is caught, reported, and the process exits normally
Abort_Swallowed ==
    /\ stderr' = Append(stderr, Traceback)
    /\ exit_status' = 0
    /\ pc' = "exited"

\* an uncaught OSError: traceback on stderr, exit status 1
Abort ==
    /\ stderr' = Append(stderr, Traceback)
    /\ exit_status' = 1
    /\ pc' = "exited"

\* lines 192-195: n < 1
RejectN ==
    /\ pc = "check"
    /\ n < 1
    /\ stderr' = Append(stderr, ErrorLine)
    /\ exit_status' = 1
    /\ pc' = "exited"
    /\ UNCHANGED <<proc, stdout, dirs, files, runs, dirs0, files0, log>>

\* fault variant: n is not validated
ResolveOutput_NoCheck ==
    /\ pc = "check"
    /\ output' = IF args_output # "" THEN args_output ELSE DefaultOutput(n)
    /\ pc' = "mkout"
    /\ UNCHANGED <<n, args_output, cm_names, fqdns, release_idx, content,
                   stdout, stderr, exit_status, dirs, files, runs, dirs0, files0, log>>

\* lines 192-197: n >= 1, output resolved
ResolveOutput ==
    /\ pc = "check"
    /\ ~(n < 1)
    /\ output' = IF args_output # "" THEN args_output ELSE DefaultOutput(n)
    /\ pc' = "mkout"
    /\ UNCHANGED <<n, args_output, cm_names, fqdns, release_idx, content,
                   stdout, stderr, exit_status, dirs, files, runs, dirs0, files0, log>>

\* line 198: os.makedirs(output, exist_ok=True)
MakeOutputDir ==
    /\ pc = "mkout"
    /\ dirs' = dirs \cup {output}
    /\ pc' = "report"
    /\ UNCHANGED <<proc, stdout, stderr, exit_status, files, runs, dirs0, files0, log>>

\* line 198 raising OSError
MakeOutputDirFails ==
    /\ pc = "mkout"
    /\ Abort
    /\ UNCHANGED <<proc, stdout, dirs, files, runs, dirs0, files0, log>>

\* lines 200-211: the cost report and the two global name sequences
Report ==
    /\ pc = "report"
    /\ stdout' = stdout \o ReportLines(n, output)
    /\ cm_names' = all_configmap_names(n)
    /\ fqdns' = all_service_fqdns(n)
    /\ release_idx' = 0
    /\ pc' = "loop"
    /\ UNCHANGED <<n, args_output, output, content, stderr, exit_status,
                   dirs, files, runs, dirs0, files0, log>>

\* lines 213-215: next release, os.makedirs(release_dir, exist_ok=True)
MakeReleaseDir ==
    /\ pc = "loop"
    /\ release_idx < n
    /\ dirs' = dirs \cup {ReleaseDir(output, release_idx)}
    /\ pc' = "gen"
    /\ UNCHANGED <<proc, stdout, stderr, exit_status, files, runs, dirs0, files0, log>>

\* line 215 raising OSError
MakeReleaseDirFails ==
    /\ pc = "loop"
    /\ release_idx < n
    /\ Abort
    /\ UNCHANGED <<proc, stdout, dirs, files, runs, dirs0, files0, log>>

\* line 216: content = generate_release(release_idx, n, cm_names, fqdns)
Generate ==
    /\ pc = "gen"
    /\ content' = generate_release(release_idx, n, cm_names, fqdns)
    /\ pc' = "write"
    /\ UNCHANGED <<n, args_output, output, cm_names, fqdns, release_idx,
                   stdout, stderr, exit_status, dirs, files, runs, dirs0, files0, log>>

\* lines 217-219: the manifest is written, the loop moves on
WriteManifest ==
    /\ pc = "write"
    /\ files' = WriteFile(files, ManifestPath(output, release_idx), content)
    /\ release_idx' = release_idx + 1
    /\ pc' = "loop"
    /\ UNCHANGED <<n, args_output, output, cm_names, fqdns, content,
                   stdout, stderr, exit_status, dirs, runs, dirs0, files0, log>>

\* line 218 raising OSError: the file is neither created nor truncated
OpenFails ==
    /\ pc = "write"
    /\ Abort
    /\ UNCHANGED <<proc, stdout, dirs, files, runs, dirs0, files0, log>>

\* line 219 (or the close) raising OSError: the file was truncated by open
\* and holds a proper prefix of the content
WriteFails ==
    /\ pc = "write"
    /\ \E k \in {0, Len(content) \div 2} :
          files' = WriteFile(files, ManifestPath(output, release_idx), SubSeq(content, 1, k))
    /\ Abort
    /\ UNCHANGED <<proc, stdout, dirs, runs, dirs0, files0, log>>

\* what run number `run`, which succeeded for scale k into out, left in its release files
Left(run, k, out, fs) ==
    { [run |-> run, n |-> k, output |-> out, r |-> r, text |-> fs[ManifestPath(out, r)]] :
        r \in { q \in 0..(k - 1) : ManifestPath(out, q) \in DOMAIN fs } }

\* line 221: loop exhausted, completion message, exit status 0
Finish ==
    /\ pc = "loop"
    /\ ~(release_idx < n)
    /\ stdout' = Append(stdout, DoneLine(n, output))
    /\ exit_status' = 0
    /\ pc' = "exited"
    /\ log' = log \cup Left(runs, n, output, files)
    /\ UNCHANGED <<proc, stderr, dirs, files, runs, dirs0, files0>>

Next ==
    \/ Invoke
    \/ RejectN
    \/ ResolveOutput
    \/ MakeOutputDir
    \/ MakeOutputDirFails
    \/ Report
    \/ MakeReleaseDir
    \/ MakeReleaseDirFails
    \/ Generate
    \/ WriteManifest
    \/ OpenFails
    \/ WriteFails
    \/ Finish

Spec == Init /\ [][Next]_vars

TypeOK ==
    /\ pc \in {"idle", "check", "mkout", "report", "loop", "gen", "write", "exited"}
    /\ n \in Ns
    /\ runs \in 0..MaxRuns
    /\ exit_status \in {0, 1}

-----------------------------------------------------------------------------
(* Reading the emitted text back *)

\* release indices looked at in an output directory (one more than any run writes)
RelIdx == 0..MaxN

\* positional indices and per-release indices tried when a line is parsed
IdxCands == 0..((MaxN + 1) * (MaxN + 1))
SubCands == 0..MaxN

SepPositions(text) == { p \in 1..Len(text) : text[p] = "---" }

\* a sequence given as a function on 1..k, as the tuple of its elements
AsSeq(sq) == SubSeq(sq, 1, Len(sq))

\* the documents of a text: the runs of lines between separator lines
SplitDocs(text) ==
    LET seps == SepPositions(text)
        ends == seps \cup {Len(text) + 1}
        starts == seps \cup {0}
        Nth(ps, k) == CHOOSE p \in ps : Cardinality({ q \in ps : q < p }) = k - 1
    IN AsSeq([k \in 1..Cardinality(ends) |->
                 SubSeq(text, Nth(starts, k) + 1, Nth(ends, k) - 1)])

KindOf(doc) == IF Len(doc) >= 2 THEN doc[2] ELSE ""

NameLineOf(doc) == IF Len(doc) >= 4 THEN doc[4] ELSE ""

\* the documents of one kind in a list of documents, in emission order
OfKind(docs, kind) == SelectSeq(docs, LAMBDA d : KindOf(d) = "kind: " \o kind)

\* the documents of one kind in a text, in emission order
DocsOf(text, kind) == OfKind(SplitDocs(text), kind)

SeqRange(sq) == { sq[j] : j \in 1..Len(sq) }

NoDup(sq) == Cardinality(SeqRange(sq)) = Len(sq)

\* release indices present in directory out
ReleasesIn(out, ds) == { r \in RelIdx : ReleaseDir(out, r) \in ds }

HoldsRelease(text, k) ==
    LET docs == SplitDocs(text)
    IN /\ Len(docs) = 4 * k + 1
       /\ Len(OfKind(docs, "ConfigMap")) = k
       /\ Len(OfKind(docs, "Secret")) = k
       /\ Len(OfKind(docs, "Deployment")) = k
       /\ Len(OfKind(docs, "Service")) = k
       /\ Len(OfKind(docs, "Ingress")) = 1

\* first position of a line in a document, 0 when absent
PosOf(doc, line) ==
    LET ps == { p \in 1..Len(doc) : doc[p] = line }
    IN IF ps = {} THEN 0 ELSE CHOOSE p \in ps : \A q \in ps : p <= q

\* the lines strictly between the first occurrences of two marker lines
Between(doc, from, to) ==
    LET a == PosOf(doc, from)
        b == PosOf(doc, to)
    IN IF a = 0 \/ b = 0 THEN <<>> ELSE SubSeq(doc, a + 1, b - 1)

\* the lines after the first occurrence of a marker line
After(doc, from) ==
    LET a == PosOf(doc, from)
    IN IF a = 0 THEN <<>> ELSE SubSeq(doc, a + 1, Len(doc))

EnvSection(doc) == Between(doc, "          env:", "          envFrom:")
EnvFromSection(doc) == Between(doc, "          envFrom:", "          volumeMounts:")
MountSection(doc) == Between(doc, "          volumeMounts:", "        - name: sidecar")
VolumeSection(doc) == After(doc, "      volumes:")
PathSection(doc) == After(doc, "        paths:")

\* identifiers a line may carry
VolNameCands == { "cm-" \o Fmt04d(x) : x \in IdxCands }
EnvNameCands == { "SVC_" \o Fmt04d(x) : x \in IdxCands }
CmNameCands == { "r" \o Fmt03d(r) \o "-config-" \o Fmt03d(i) : r \in SubCands, i \in SubCands }
SecretNameCands == { "r" \o Fmt03d(r) \o "-secret-" \o Fmt03d(i) : r \in SubCands, i \in SubCands }
AppNameCands == { "r" \o Fmt03d(r) \o "-app-" \o Fmt03d(i) : r \in SubCands, i \in SubCands }
FqdnCands == { a \o ".default.svc.cluster.local" : a \in AppNameCands }

\* the lines pre \o v \o post for v among cands, each mapped to its v
LineTable(pre, post, cands) ==
    [l \in { pre \o v \o post : v \in cands } |-> CHOOSE v \in cands : l = pre \o v \o post]

MountNameTable == LineTable("            - name: ", "", VolNameCands)
VolumeNameTable == LineTable("        - name: ", "", VolNameCands)
VolumeConfigMapTable == LineTable("            name: ", "", CmNameCands)
EnvNameTable == LineTable("            - name: ", "", EnvNameCands)
EnvValueTable == LineTable("              value: \"http://", ":8080/api\"", FqdnCands)
SecretRefTable == LineTable("                name: ", "", SecretNameCands)
BackendTable == LineTable("                name: ", "", AppNameCands)
ConfigMapMetaTable == LineTable("  name: ", "", CmNameCands)
SecretMetaTable == LineTable("  name: ", "", SecretNameCands)
AppMetaTable == LineTable("  name: ", "", AppNameCands)

\* the value a line carries according to a table, "?" when it has none
Strip(line, table) == IF line \in DOMAIN table THEN table[line] ELSE "?"

\* line `off` (from 1) of every entry of a section made of entries of `stride`
\* lines, read through a table; the empty sequence when the section is not a
\* whole number of entries
Field(sec, stride, off, table) ==
    IF Len(sec) % stride # 0 THEN <<>>
    ELSE AsSeq([j \in 1..(Len(sec) \div stride) |->
                   Strip(sec[stride * (j - 1) + off], table)])

\* names of the volumeMounts of a Deployment, in emission order
MountNames(doc) == Field(MountSection(doc), 3, 1, MountNameTable)

\* names of the volumes of a Deployment, in emission order
VolumeNames(doc) == Field(VolumeSection(doc), 3, 1, VolumeNameTable)

\* configmap names the volumes of a Deployment are bound to, in emission order
VolumeConfigMaps(doc) == Field(VolumeSection(doc), 3, 3, VolumeConfigMapTable)

\* names of the environment variables of a Deployment, in emission order
EnvNames(doc) == Field(EnvSection(doc), 2, 1, EnvNameTable)

\* FQDNs in the values of the environment variables of a Deployment
EnvFqdns(doc) == Field(EnvSection(doc), 2, 2, EnvValueTable)

\* secret names of the envFrom references of a Deployment
EnvFromSecrets(doc) == Field(EnvFromSection(doc), 2, 2, SecretRefTable)

\* service names of the path backends of an Ingress
IngressBackends(doc) == Field(PathSection(doc), 7, 5, BackendTable)

\* metadata.name of every document of a list
MetaNames(docs, table) ==
    AsSeq([j \in 1..Len(docs) |-> Strip(NameLineOf(docs[j]), table)])

Succeeded == pc = "exited" /\ exit_status = 0 /\ n >= 1

-----------------------------------------------------------------------------
(* Claims *)

\* C1: a run with n < 1 ends with exit status 1 after one diagnostic line on
\* stderr and leaves the filesystem exactly as it found it: no directory and
\* no file is created or changed, and the run never proceeds past validation.
C1_InvalidNWritesNothing ==
    (pc # "idle" /\ n < 1) =>
        /\ pc \in {"check", "exited"}
        /\ dirs = dirs0
        /\ files = files0
        /\ pc = "exited" => (exit_status = 1 /\ stderr = << ErrorLine >> /\ stdout = <<>>)

\* a rejected n = -1 on a filesystem an earlier run has populated
C1_Witness ==
    /\ pc = "exited"
    /\ n = -1
    /\ exit_status = 1
    /\ args_output = CustomOutput
    /\ ManifestPath(CustomOutput, 0) \in DOMAIN files

\* C2 as stated: after a successful run the output directory contains exactly
\* the releases 0..n-1 and no other, each file holding n ConfigMaps, n Secrets,
\* n Deployments, n Services and 1 Ingress.
C2_ExactlyNReleases ==
    Succeeded =>
        /\ ReleasesIn(output, dirs) = 0..(n - 1)
        /\ \A r \in RelIdx :
              ManifestPath(output, r) \in DOMAIN files <=> r < n
        /\ \A r \in 0..(n - 1) : HoldsRelease(files[ManifestPath(output, r)], n)

\* C2 amended: a successful run leaves exactly the files of releases 0..n-1
\* written by it, each with n ConfigMaps, n Secrets, n Deployments, n Services
\* and 1 Ingress; releases of index >= n are exactly those the directory held
\* before the run, unchanged.
C2_WritesNReleases ==
    Succeeded =>
        /\ \A r \in 0..(n - 1) :
              /\ ReleaseDir(output, r) \in dirs
              /\ ManifestPath(output, r) \in DOMAIN files
              /\ HoldsRelease(files[ManifestPath(output, r)], n)
        /\ \A r \in RelIdx \ (0..(n - 1)) :
              /\ ReleaseDir(output, r) \in dirs <=> ReleaseDir(output, r) \in dirs0
              /\ ManifestPath(output, r) \in DOMAIN files
                    <=> ManifestPath(output, r) \in DOMAIN files0
              /\ ManifestPath(output, r) \in DOMAIN files
                    => files[ManifestPath(output, r)] = files0[ManifestPath(output, r)]
        /\ ReleasesIn(output, dirs0) \subseteq 0..(n - 1)
              => ReleasesIn(output, dirs) = 0..(n - 1)

\* a successful run for n = 1 into a directory that already held release 1
C2_Witness ==
    /\ Succeeded
    /\ n = 1
    /\ ManifestPath(output, 0) \in DOMAIN files
    /\ ManifestPath(output, 1) \in DOMAIN files

\* C3: the text returned by generate_release is 4n+1 documents in the order
\* n ConfigMaps (i ascending), n Secrets, n Deployments, n Services, 1 Ingress,
\* with exactly one separator line between consecutive documents, 4n in all,
\* none before the first or after the last document.
C3_EmissionOrder ==
    pc = "write" =>
        LET docs == SplitDocs(content)
            r == release_idx
        IN /\ Cardinality(SepPositions(content)) = 4 * n
           /\ Len(docs) = 4 * n + 1
           /\ \A p \in 1..Len(docs) : docs[p] # <<>>
           /\ content[1] # "---"
           /\ content[Len(content)] # "---"
           /\ \A i \in 0..(n - 1) :
                 /\ KindOf(docs[i + 1]) = "kind: ConfigMap"
                 /\ NameLineOf(docs[i + 1]) = "  name: r" \o Fmt03d(r) \o "-config-" \o Fmt03d(i)
                 /\ KindOf(docs[n + i + 1]) = "kind: Secret"
                 /\ NameLineOf(docs[n + i + 1]) = "  name: r" \o Fmt03d(r) \o "-secret-" \o Fmt03d(i)
                 /\ KindOf(docs[2 * n + i + 1]) = "kind: Deployment"
                 /\ NameLineOf(docs[2 * n + i + 1]) = "  name: r" \o Fmt03d(r) \o "-app-" \o Fmt03d(i)
                 /\ KindOf(docs[3 * n + i + 1]) = "kind: Service"
                 /\ NameLineOf(docs[3 * n + i + 1]) = "  name: r" \o Fmt03d(r) \o "-app-" \o Fmt03d(i)
           /\ KindOf(docs[4 * n + 1]) = "kind: Ingress"
           /\ NameLineOf(docs[4 * n + 1]) = "  name: r" \o Fmt03d(r) \o "-ingress"

\* the text of the last release of a run with n = 2
C3_Witness ==
    /\ pc = "write"
    /\ n = 2
    /\ release_idx = 1
    /\ Len(SplitDocs(content)) = 9

\* C7: all_configmap_names(n) and all_service_fqdns(n) are sequences of n*n
\* pairwise distinct names, release index major and per-release index minor:
\* position r*n + i holds the name derived from (r, i).
C7_NameSequences ==
    pc \in {"loop", "gen", "write"} =>
        /\ Len(cm_names) = n * n
        /\ Len(fqdns) = n * n
        /\ \A p, q \in 1..(n * n) :
              p # q => (cm_names[p] # cm_names[q] /\ fqdns[p] # fqdns[q])
        /\ \A r, i \in 0..(n - 1) :
              /\ cm_names[r * n + i + 1] = "r" \o Fmt03d(r) \o "-config-" \o Fmt03d(i)
              /\ fqdns[r * n + i + 1] =
                    "r" \o Fmt03d(r) \o "-app-" \o Fmt03d(i) \o ".default.svc.cluster.local"

\* the name sequences of a run with n = 2
C7_Witness ==
    /\ pc = "loop"
    /\ n = 2
    /\ Len(cm_names) = 4
    /\ cm_names[3] = "r001-config-000"
    /\ fqdns[2] = "r000-app-001.default.svc.cluster.local"

\* C4: in every Deployment the number of volumeMounts equals the number of
\* volumes equals n*n equals the number of SVC_ environment variables carrying
\* a service FQDN, and every volumeMount name has a volume of the same name.
C4_MountVolumeEnvCounts ==
    pc = "write" =>
        LET deps == DocsOf(content, "Deployment")
        IN /\ Len(deps) = n
           /\ \A x \in 1..Len(deps) :
                 LET mn == MountNames(deps[x])
                     vn == VolumeNames(deps[x])
                     en == EnvNames(deps[x])
                     ef == EnvFqdns(deps[x])
                 IN /\ Len(mn) = n * n
                    /\ Len(vn) = n * n
                    /\ Len(en) = n * n
                    /\ Len(ef) = n * n
                    /\ "?" \notin SeqRange(mn) \cup SeqRange(vn)
                    /\ "?" \notin SeqRange(en) \cup SeqRange(ef)
                    /\ NoDup(mn) /\ NoDup(vn) /\ NoDup(en)
                    /\ SeqRange(mn) \subseteq SeqRange(vn)

\* a Deployment of a run with n = 2 holding 4 mounts
C4_Witness ==
    /\ pc = "write"
    /\ n = 2
    /\ LET deps == DocsOf(content, "Deployment")
       IN Len(deps) = 2 /\ Len(MountNames(deps[1])) = 4 /\ Len(EnvNames(deps[1])) = 4

\* C5: in every Deployment of release r the envFrom secret references are n in
\* number and name exactly the n Secrets emitted by the same release,
\* r{r:03d}-secret-{j:03d} for j in 0..n-1, and no Secret of another release.
C5_EnvFromOwnRelease ==
    pc = "write" =>
        LET docs == SplitDocs(content)
            deps == OfKind(docs, "Deployment")
            secrets == SeqRange(MetaNames(OfKind(docs, "Secret"), SecretMetaTable))
        IN /\ Len(deps) = n
           /\ \A x \in 1..Len(deps) :
                 LET refs == EnvFromSecrets(deps[x])
                 IN /\ Len(refs) = n
                    /\ NoDup(refs)
                    /\ SeqRange(refs) = secrets
                    /\ SeqRange(refs) =
                          { "r" \o Fmt03d(release_idx) \o "-secret-" \o Fmt03d(j) : j \in 0..(n - 1) }

\* a Deployment of release 1 of a run with n = 2: 2 references, not 4
C5_Witness ==
    /\ pc = "write"
    /\ n = 2
    /\ release_idx = 1
    /\ LET deps == DocsOf(content, "Deployment")
       IN /\ Len(deps) = 2
          /\ Len(EnvFromSecrets(deps[2])) = 2
          /\ EnvFromSecrets(deps[2])[2] = "r001-secret-001"

\* C6: in every Deployment of every release, for every idx in 0..n*n-1, the
\* volume cm-{idx:04d} is bound to the configmap name at position idx of
\* all_configmap_names(n) and the variable SVC_{idx:04d} carries the FQDN at
\* position idx of all_service_fqdns(n).
C6_PositionalIdentifiers ==
    pc = "write" =>
        LET deps == DocsOf(content, "Deployment")
            names == all_configmap_names(n)
            hosts == all_service_fqdns(n)
        IN /\ Len(deps) = n
           /\ \A x \in 1..Len(deps) :
                 LET vn == VolumeNames(deps[x])
                     vc == VolumeConfigMaps(deps[x])
                     en == EnvNames(deps[x])
                     ef == EnvFqdns(deps[x])
                 IN \A idx \in 0..(n * n - 1) :
                       /\ \E j \in 1..Len(vn) : vn[j] = "cm-" \o Fmt04d(idx)
                       /\ \A j \in 1..Len(vn) :
                             vn[j] = "cm-" \o Fmt04d(idx) => vc[j] = names[idx + 1]
                       /\ \E j \in 1..Len(en) : en[j] = "SVC_" \o Fmt04d(idx)
                       /\ \A j \in 1..Len(en) :
                             en[j] = "SVC_" \o Fmt04d(idx) => ef[j] = hosts[idx + 1]

\* a Deployment of release 1 whose volume cm-0002 is bound to r001-config-000
C6_Witness ==
    /\ pc = "write"
    /\ n = 2
    /\ release_idx = 1
    /\ LET deps == DocsOf(content, "Deployment")
       IN /\ Len(deps) = 2
          /\ VolumeNames(deps[1])[3] = "cm-0002"
          /\ VolumeConfigMaps(deps[1])[3] = "r001-config-000"
          /\ EnvFqdns(deps[1])[1] = "r000-app-000.default.svc.cluster.local"

\* C8: two successful runs with the same n and the same output directory leave
\* every release-{r:03d}/manifests.yaml with identical content, whatever the
\* directory held when the later run started; every successful run leaves a
\* file for each of its n releases.
C8_Reproducible ==
    /\ \A a, b \in log :
          (a.n = b.n /\ a.output = b.output /\ a.r = b.r) => a.text = b.text
    /\ Succeeded =>
          \A r \in 0..(n - 1) :
             \E a \in log :
                /\ a.run = runs /\ a.n = n /\ a.output = output /\ a.r = r
                /\ ManifestPath(output, r) \in DOMAIN files
                /\ a.text = files[ManifestPath(output, r)]

\* the second of two successful runs with n = 2 into the same directory
C8_Witness ==
    /\ Succeeded
    /\ n = 2
    /\ \E a, b \in log :
          /\ a.run # b.run
          /\ a.n = 2 /\ b.n = 2
          /\ a.output = output /\ b.output = output
          /\ a.r = 1 /\ b.r = 1

\* an uncaught exception was reported by the current process
Failed == \E p \in 1..Len(stderr) : stderr[p] = Traceback

\* C9: releases are written one after the other in ascending index order (at
\* any moment of a run the releases below release_idx are on disk as generated
\* and those above it are as the run found them), and a failed directory
\* creation or write at release r ends the run there: the process has exited
\* with a non-zero status, the completion message is not printed, releases
\* above r are as the run found them and releases below r stay as written.
C9_SequentialFailFast ==
    (pc # "idle" /\ n >= 1) =>
        /\ release_idx \in 0..n
        /\ output # "" =>
              \A r \in RelIdx :
                 /\ r < release_idx =>
                       /\ ReleaseDir(output, r) \in dirs
                       /\ ManifestPath(output, r) \in DOMAIN files
                       /\ files[ManifestPath(output, r)] =
                             generate_release(r, n, all_configmap_names(n), all_service_fqdns(n))
                 /\ r > release_idx =>
                       /\ ReleaseDir(output, r) \in dirs <=> ReleaseDir(output, r) \in dirs0
                       /\ ManifestPath(output, r) \in DOMAIN files
                             <=> ManifestPath(output, r) \in DOMAIN files0
                       /\ ManifestPath(output, r) \in DOMAIN files
                             => files[ManifestPath(output, r)] = files0[ManifestPath(output, r)]
        /\ Failed =>
              /\ pc = "exited"
              /\ exit_status # 0
              /\ \A p \in 1..Len(stdout) : stdout[p] # DoneLine(n, output)
        /\ (pc = "exited" /\ exit_status = 0) =>
              (release_idx = n /\ stdout[Len(stdout)] = DoneLine(n, output))

\* a run with n = 2 that failed at release 1 after release 0 was written
C9_Witness ==
    /\ pc = "exited"
    /\ Failed
    /\ n = 2
    /\ release_idx = 1
    /\ ManifestPath(output, 0) \in DOMAIN files
    /\ ManifestPath(output, 1) \in DOMAIN files
    /\ files[ManifestPath(output, 1)] = <<>>

\* the releases a successful run wrote, as documents read back from the
\* files; release r is at position r + 1
Corpus == AsSeq([p \in 1..n |-> SplitDocs(files[ManifestPath(output, p - 1)])])

\* C10: in the corpus of a successful run, the configmap bound by the idx-th
\* volume of any Deployment is the metadata.name of the (idx mod n)-th
\* ConfigMap of release idx div n, every SVC_ FQDN is the name of an emitted
\* Service followed by .default.svc.cluster.local, every Ingress backend is a
\* Service of the same release, and every emitted ConfigMap and Service is
\* referenced by every Deployment.
C10_ReferentialIntegrity ==
    Succeeded =>
        LET corpus == Corpus
            cms == AsSeq([p \in 1..n |-> MetaNames(OfKind(corpus[p], "ConfigMap"), ConfigMapMetaTable)])
            svcs == AsSeq([p \in 1..n |-> MetaNames(OfKind(corpus[p], "Service"), AppMetaTable)])
            AllCms == UNION { SeqRange(cms[p]) : p \in 1..n }
            AllSvcs == UNION { SeqRange(svcs[p]) : p \in 1..n }
            AllFqdns == { a \o ".default.svc.cluster.local" : a \in AllSvcs }
        IN /\ "?" \notin AllCms \cup AllSvcs
           /\ \A r \in 0..(n - 1) :
                 LET deps == OfKind(corpus[r + 1], "Deployment")
                     ings == OfKind(corpus[r + 1], "Ingress")
                 IN /\ Len(cms[r + 1]) = n
                    /\ Len(svcs[r + 1]) = n
                    /\ Len(deps) = n
                    /\ \A x \in 1..Len(deps) :
                          LET vn == VolumeNames(deps[x])
                              vc == VolumeConfigMaps(deps[x])
                              ef == EnvFqdns(deps[x])
                          IN /\ Len(vc) = n * n
                             /\ \A idx \in 0..(Len(vc) - 1) :
                                   /\ vn[idx + 1] = "cm-" \o Fmt04d(idx)
                                   /\ vc[idx + 1] = cms[(idx \div n) + 1][(idx % n) + 1]
                             /\ SeqRange(ef) \subseteq AllFqdns
                             /\ SeqRange(vc) = AllCms
                             /\ SeqRange(ef) = AllFqdns
                    /\ Len(ings) = 1
                    /\ \A x \in 1..Len(ings) :
                          LET bk == IngressBackends(ings[x])
                          IN /\ Len(bk) = n
                             /\ SeqRange(bk) \subseteq SeqRange(svcs[r + 1])

\* the corpus of a successful run with n = 2, where a Deployment of release 0
\* binds a ConfigMap emitted by release 1
C10_Witness ==
    /\ Succeeded
    /\ n = 2
    /\ LET deps == OfKind(Corpus[1], "Deployment")
           cm == MetaNames(OfKind(Corpus[2], "ConfigMap"), ConfigMapMetaTable)
       IN /\ Len(deps) = 2 /\ Len(cm) = 2
          /\ VolumeConfigMaps(deps[1])[4] = cm[2]
          /\ cm[2] = "r001-config-001"

====
